---- MODULE Spec2Model ----
(***************************************************************************)
(* Model of the anemone memory comparison family, anemone_memcmp.h.        *)
(*                                                                         *)
(* A buffer is a sequence of bytes 0..255 of length len + Padding; byte    *)
(* index i of the C code is element i + 1.  A 64-bit word is the sequence  *)
(* of its eight bytes, least significant first (the loads are native,      *)
(* little-endian loads); a 128-bit register is the sequence of its sixteen *)
(* bytes.  Every function is modelled one loop iteration at a time by an   *)
(* operator from frame to frame, and a frame records the locals of the     *)
(* running function, the set of byte indices loaded so far and the         *)
(* argument given to anemone_remainder_mask64 (-1 while it has not been    *)
(* called).                                                                *)
(***************************************************************************)
EXTENDS Integers, Sequences, FiniteSets

VARIABLES as, bs, len, fn, st

vars == <<as, bs, len, fn, st>>

(* ---------------------------- bounds ---------------------------------- *)

\* Largest logical length drawn.
MaxLen == 21

\* Largest distance between the two differing positions drawn.
MaxGap == 4

\* Bytes of readable memory after the logical end of a buffer.
Padding == 16

(* ---------------------------- helpers --------------------------------- *)

Sign(x) == IF x > 0 THEN 1 ELSE IF x < 0 THEN -1 ELSE 0

Min(S) == CHOOSE x \in S : \A y \in S : x <= y

\* *(uint8_t *)(buf + i); a load outside the mapped region reads 0 here and
\* is reported through the frame's reads.
Byte(buf, i) == IF i + 1 \in DOMAIN buf THEN buf[i + 1] ELSE 0

\* *(uint64_t*)(buf + off)
Load64(buf, off) == [k \in 1..8 |-> Byte(buf, off + k - 1)]

\* _mm_loadu_si128((__m128i*)(buf + off))
Load128(buf, off) == [k \in 1..16 |-> Byte(buf, off + k - 1)]

RECURSIVE BitAnd(_, _)
BitAnd(x, y) ==
    IF x = 0 \/ y = 0 THEN 0
    ELSE (x % 2) * (y % 2) + 2 * BitAnd(x \div 2, y \div 2)

\* w & m on 64-bit words
And64(w, m) == [k \in 1..8 |-> BitAnd(w[k], m[k])]

\* unsigned a > b on 64-bit words: decided by the most significant byte
\* where they differ
Gt64(a, b) ==
    LET D == {k \in 1..8 : a[k] # b[k]}
        top == CHOOSE k \in D : \A j \in D : j <= k
    IN D # {} /\ a[top] > b[top]

\* anemone_twiddle.h: reverse the bytes of a 64-bit word
anemone_bswap64(w) == [k \in 1..8 |-> w[9 - k]]

\* anemone_twiddle.h: set bits exactly in the rem valid (lowest-address)
\* bytes of a loaded word
anemone_remainder_mask64(rem) == [k \in 1..8 |-> IF k <= rem THEN 255 ELSE 0]

\* _mm_cmpestri with _SIDD_UBYTE_OPS | _SIDD_CMP_EQUAL_EACH |
\* _SIDD_NEGATIVE_POLARITY: IntRes1 holds pairwise equality, forced true
\* where both elements are past their length and false where exactly one
\* is; the polarity negates every bit; the result is the least index set,
\* or 16.
cmpestri(m1, la, m2, lb) ==
    LET IntRes1(k) == IF k < la /\ k < lb THEN m1[k + 1] = m2[k + 1]
                      ELSE (k >= la /\ k >= lb)
        S == {k \in 0..15 : ~IntRes1(k)}
    IN IF S = {} THEN 16 ELSE Min(S)

(* ---------------------------- frames ---------------------------------- *)

Idle == [cur |-> "none", pc |-> "idle", off |-> 0, rem |-> 0, i |-> 0,
         ret |-> 0, reads |-> {}, mask |-> -1]

\* Entry of function f with length argument n: uint64_t rem = len, i = 0,
\* the pointers at the start of the buffers.
Enter(f, n) ==
    [Idle EXCEPT !.cur = f,
                 !.pc = IF f \in {"anemone_memcmp", "anemone_memeq", "anemone_memeq8"}
                        THEN "call" ELSE "loop",
                 !.rem = n]

Return(s, v, r) == [s EXCEPT !.pc = "done", !.ret = v, !.reads = r]

(* ------------------------ ordering functions -------------------------- *)

\* anemone_memcmp8 with the loop bound off by one (i <= len).
anemone_memcmp8_loop_offbyone(a, b, n, s) ==
    IF s.i # n + 1
    THEN LET ca == Byte(a, s.i)
             cb == Byte(b, s.i)
             r  == s.reads \cup {s.i}
         IN IF ca # cb
            THEN Return(s, ca - cb, r)
            ELSE [s EXCEPT !.i = s.i + 1, !.reads = r]
    ELSE Return(s, 0, s.reads)

\* anemone_memcmp8 with the ++i of the loop lost.
anemone_memcmp8_loop_noincrement(a, b, n, s) ==
    IF s.i # n
    THEN LET ca == Byte(a, s.i)
             cb == Byte(b, s.i)
             r  == s.reads \cup {s.i}
         IN IF ca # cb
            THEN Return(s, ca - cb, r)
            ELSE [s EXCEPT !.reads = r]
    ELSE Return(s, 0, s.reads)

\* One evaluation of the for loop of anemone_memcmp8.
anemone_memcmp8_loop(a, b, n, s) ==
    IF s.i # n
    THEN LET ca == Byte(a, s.i)
             cb == Byte(b, s.i)
             r  == s.reads \cup {s.i}
         IN IF ca # cb
            THEN Return(s, ca - cb, r)
            ELSE [s EXCEPT !.i = s.i + 1, !.reads = r]
    ELSE Return(s, 0, s.reads)

\* anemone_memcmp64 comparing the words as loaded, without the byte swap.
anemone_memcmp64_loop_noswap(a, b, n, s) ==
    IF s.rem > 8
    THEN LET wa == Load64(a, s.off)
             wb == Load64(b, s.off)
             r  == s.reads \cup (s.off..(s.off + 7))
         IN IF wa # wb
            THEN IF Gt64(wa, wb)
                 THEN Return(s, 1, r)
                 ELSE Return(s, -1, r)
            ELSE [s EXCEPT !.rem = s.rem - 8, !.off = s.off + 8, !.reads = r]
    ELSE [s EXCEPT !.pc = "tail"]

\* anemone_memcmp64 testing the unsigned difference a_s - b_s > 0, which
\* holds of any two different words.
anemone_memcmp64_loop_unsigneddiff(a, b, n, s) ==
    IF s.rem > 8
    THEN LET wa == Load64(a, s.off)
             wb == Load64(b, s.off)
             r  == s.reads \cup (s.off..(s.off + 7))
         IN IF wa # wb
            THEN Return(s, 1, r)
            ELSE [s EXCEPT !.rem = s.rem - 8, !.off = s.off + 8, !.reads = r]
    ELSE [s EXCEPT !.pc = "tail"]

\* anemone_memcmp64 looping while (rem >= 8).
anemone_memcmp64_loop_geq(a, b, n, s) ==
    IF s.rem >= 8
    THEN LET wa == Load64(a, s.off)
             wb == Load64(b, s.off)
             r  == s.reads \cup (s.off..(s.off + 7))
         IN IF wa # wb
            THEN IF Gt64(anemone_bswap64(wa), anemone_bswap64(wb))
                 THEN Return(s, 1, r)
                 ELSE Return(s, -1, r)
            ELSE [s EXCEPT !.rem = s.rem - 8, !.off = s.off + 8, !.reads = r]
    ELSE [s EXCEPT !.pc = "tail"]

\* One evaluation of the while loop of anemone_memcmp64.
anemone_memcmp64_loop(a, b, n, s) ==
    IF s.rem > 8
    THEN LET wa == Load64(a, s.off)
             wb == Load64(b, s.off)
             r  == s.reads \cup (s.off..(s.off + 7))
         IN IF wa # wb
            THEN IF Gt64(anemone_bswap64(wa), anemone_bswap64(wb))
                 THEN Return(s, 1, r)
                 ELSE Return(s, -1, r)
            ELSE [s EXCEPT !.rem = s.rem - 8, !.off = s.off + 8, !.reads = r]
    ELSE [s EXCEPT !.pc = "tail"]

\* The tail of anemone_memcmp64 without the mask.
anemone_memcmp64_tail_nomask(a, b, n, s) ==
    IF s.rem = 0
    THEN Return(s, 0, s.reads)
    ELSE LET wa == anemone_bswap64(Load64(a, s.off))
             wb == anemone_bswap64(Load64(b, s.off))
             r  == s.reads \cup (s.off..(s.off + 7))
             t  == [s EXCEPT !.mask = s.rem]
         IN IF wa = wb THEN Return(t, 0, r)
            ELSE IF Gt64(wa, wb) THEN Return(t, 1, r)
            ELSE Return(t, -1, r)

\* The tail of anemone_memcmp64 without the test of rem == 0.
anemone_memcmp64_tail_nozerotest(a, b, n, s) ==
    LET mask == anemone_remainder_mask64(s.rem)
        wa == anemone_bswap64(And64(Load64(a, s.off), mask))
        wb == anemone_bswap64(And64(Load64(b, s.off), mask))
        r  == s.reads \cup (s.off..(s.off + 7))
        t  == [s EXCEPT !.mask = s.rem]
    IN IF wa = wb THEN Return(t, 0, r)
       ELSE IF Gt64(wa, wb) THEN Return(t, 1, r)
       ELSE Return(t, -1, r)

\* The code of anemone_memcmp64 after its loop.
anemone_memcmp64_tail(a, b, n, s) ==
    IF s.rem = 0
    THEN Return(s, 0, s.reads)
    ELSE LET mask == anemone_remainder_mask64(s.rem)
             wa == anemone_bswap64(And64(Load64(a, s.off), mask))
             wb == anemone_bswap64(And64(Load64(b, s.off), mask))
             r  == s.reads \cup (s.off..(s.off + 7))
             t  == [s EXCEPT !.mask = s.rem]
         IN IF wa = wb THEN Return(t, 0, r)
            ELSE IF Gt64(wa, wb) THEN Return(t, 1, r)
            ELSE Return(t, -1, r)

\* anemone_memcmp128 reading the differing bytes at index from the start
\* of the buffers instead of from the current chunk.
anemone_memcmp128_loop_startindex(a, b, n, s) ==
    IF s.rem > 0
    THEN LET current_chunk == IF s.rem < 16 THEN s.rem ELSE 16
             m1 == Load128(a, s.off)
             m2 == Load128(b, s.off)
             index == cmpestri(m1, current_chunk, m2, current_chunk)
             r  == s.reads \cup (s.off..(s.off + 15))
         IN IF index < current_chunk
            THEN Return(s, Byte(a, index) - Byte(b, index), r)
            ELSE [s EXCEPT !.off = s.off + 16, !.rem = s.rem - current_chunk,
                           !.reads = r]
    ELSE Return(s, 0, s.reads)

\* One evaluation of the while loop of anemone_memcmp128.
anemone_memcmp128_loop(a, b, n, s) ==
    IF s.rem > 0
    THEN LET current_chunk == IF s.rem < 16 THEN s.rem ELSE 16
             m1 == Load128(a, s.off)
             m2 == Load128(b, s.off)
             index == cmpestri(m1, current_chunk, m2, current_chunk)
             r  == s.reads \cup (s.off..(s.off + 15))
         IN IF index < current_chunk
            THEN Return(s, Byte(a, s.off + index) - Byte(b, s.off + index), r)
            ELSE [s EXCEPT !.off = s.off + 16, !.rem = s.rem - current_chunk,
                           !.reads = r]
    ELSE Return(s, 0, s.reads)

\* anemone_memcmp forwarding to the vector tier.
anemone_memcmp_call_vector(a, b, n, s) == Enter("anemone_memcmp128", n)

\* anemone_memcmp: return anemone_memcmp64(as, bs, len)
anemone_memcmp_call(a, b, n, s) == Enter("anemone_memcmp64", n)

(* ------------------------ equality functions -------------------------- *)

\* anemone_memeq8: return anemone_memcmp8(as, bs, len)
anemone_memeq8_call(a, b, n, s) == Enter("anemone_memcmp8", n)

\* One evaluation of the while loop of anemone_memeq64.
anemone_memeq64_loop(a, b, n, s) ==
    IF s.rem > 8
    THEN LET wa == Load64(a, s.off)
             wb == Load64(b, s.off)
             r  == s.reads \cup (s.off..(s.off + 7))
         IN IF wa # wb
            THEN Return(s, 1, r)
            ELSE [s EXCEPT !.rem = s.rem - 8, !.off = s.off + 8, !.reads = r]
    ELSE [s EXCEPT !.pc = "tail"]

\* The tail of anemone_memeq64 without the mask.
anemone_memeq64_tail_nomask(a, b, n, s) ==
    IF s.rem = 0
    THEN Return(s, 0, s.reads)
    ELSE LET wa == Load64(a, s.off)
             wb == Load64(b, s.off)
             r  == s.reads \cup (s.off..(s.off + 7))
             t  == [s EXCEPT !.mask = s.rem]
         IN IF wa # wb THEN Return(t, 1, r) ELSE Return(t, 0, r)

\* The code of anemone_memeq64 after its loop.
anemone_memeq64_tail(a, b, n, s) ==
    IF s.rem = 0
    THEN Return(s, 0, s.reads)
    ELSE LET mask == anemone_remainder_mask64(s.rem)
             wa == And64(Load64(a, s.off), mask)
             wb == And64(Load64(b, s.off), mask)
             r  == s.reads \cup (s.off..(s.off + 7))
             t  == [s EXCEPT !.mask = s.rem]
         IN IF wa # wb THEN Return(t, 1, r) ELSE Return(t, 0, r)

\* One evaluation of the while loop of anemone_memeq128.
anemone_memeq128_loop(a, b, n, s) ==
    IF s.rem > 0
    THEN LET current_chunk == IF s.rem < 16 THEN s.rem ELSE 16
             m1 == Load128(a, s.off)
             m2 == Load128(b, s.off)
             index == cmpestri(m1, current_chunk, m2, current_chunk)
             r  == s.reads \cup (s.off..(s.off + 15))
         IN IF index < current_chunk
            THEN Return(s, 1, r)
            ELSE [s EXCEPT !.off = s.off + 16, !.rem = s.rem - current_chunk,
                           !.reads = r]
    ELSE Return(s, 0, s.reads)

\* anemone_memeq: return anemone_memeq64(buf1, buf2, len)
anemone_memeq_call(a, b, n, s) == Enter("anemone_memeq64", n)

(* ------------------------ whole functions ----------------------------- *)

Functions == {"anemone_memcmp8", "anemone_memcmp64", "anemone_memcmp128",
              "anemone_memcmp", "anemone_memeq8", "anemone_memeq64",
              "anemone_memeq128", "anemone_memeq"}

Ordering == {"anemone_memcmp8", "anemone_memcmp64", "anemone_memcmp128",
             "anemone_memcmp"}

Equality == Functions \ Ordering

\* The next frame of the running function.
Step(a, b, n, s) ==
    CASE s.cur = "anemone_memcmp8"   -> anemone_memcmp8_loop(a, b, n, s)
      [] s.cur = "anemone_memcmp64"  ->
            IF s.pc = "loop" THEN anemone_memcmp64_loop(a, b, n, s)
                             ELSE anemone_memcmp64_tail(a, b, n, s)
      [] s.cur = "anemone_memcmp128" -> anemone_memcmp128_loop(a, b, n, s)
      [] s.cur = "anemone_memcmp"    -> anemone_memcmp_call(a, b, n, s)
      [] s.cur = "anemone_memeq8"    -> anemone_memeq8_call(a, b, n, s)
      [] s.cur = "anemone_memeq64"   ->
            IF s.pc = "loop" THEN anemone_memeq64_loop(a, b, n, s)
                             ELSE anemone_memeq64_tail(a, b, n, s)
      [] s.cur = "anemone_memeq128"  -> anemone_memeq128_loop(a, b, n, s)
      [] s.cur = "anemone_memeq"     -> anemone_memeq_call(a, b, n, s)

\* The frame in which the call returns, given at most k further steps.
RECURSIVE RunFrom(_, _, _, _, _)
RunFrom(a, b, n, s, k) ==
    IF s.pc = "done" \/ k = 0 THEN s
    ELSE RunFrom(a, b, n, Step(a, b, n, s), k - 1)

\* The frame in which f(a, b, n) returns.
Run(f, a, b, n) == RunFrom(a, b, n, Enter(f, n), n + 3)

\* The value f(a, b, n) returns.
Result(f, a, b, n) == Run(f, a, b, n).ret

(* ---------------------------- inputs ---------------------------------- *)

\* Byte pairs placed at a differing position.
Pairs == {<<255, 0>>, <<0, 255>>, <<1, 2>>}

Base(i) == (7 * i + 65) % 256

\* Two buffers of n + Padding bytes that are equal except at positions d1
\* and d2 (when within the buffers), where they hold p and p reversed.
BufA(n, d1, d2, p) ==
    [k \in 1..(n + Padding) |->
        IF k - 1 = d1 THEN p[1] ELSE IF k - 1 = d2 THEN p[2] ELSE Base(k - 1)]

BufB(n, d1, d2, p) ==
    [k \in 1..(n + Padding) |->
        IF k - 1 = d1 THEN p[2] ELSE IF k - 1 = d2 THEN p[1] ELSE Base(k - 1)]

(* ------------------------- the state machine -------------------------- *)

Init ==
    /\ \E n \in 0..MaxLen :
       \E d1 \in 0..(n + Padding) :
       \E g \in 0..MaxGap :
       \E p \in Pairs :
          /\ len = n
          /\ as = BufA(n, d1, IF g = 0 THEN -1 ELSE d1 + g, p)
          /\ bs = BufB(n, d1, IF g = 0 THEN -1 ELSE d1 + g, p)
    /\ fn = "none"
    /\ st = Idle

Call ==
    /\ st.pc = "idle"
    /\ \E f \in Functions :
          /\ fn' = f
          /\ st' = Enter(f, len)
    /\ UNCHANGED <<as, bs, len>>

Running(f, pc) == st.cur = f /\ st.pc = pc

Memcmp8Loop ==
    /\ Running("anemone_memcmp8", "loop")
    /\ st' = anemone_memcmp8_loop(as, bs, len, st)
    /\ UNCHANGED <<as, bs, len, fn>>

Memcmp64Loop ==
    /\ Running("anemone_memcmp64", "loop")
    /\ st' = anemone_memcmp64_loop(as, bs, len, st)
    /\ UNCHANGED <<as, bs, len, fn>>

Memcmp64Tail ==
    /\ Running("anemone_memcmp64", "tail")
    /\ st' = anemone_memcmp64_tail(as, bs, len, st)
    /\ UNCHANGED <<as, bs, len, fn>>

Memcmp128Loop ==
    /\ Running("anemone_memcmp128", "loop")
    /\ st' = anemone_memcmp128_loop(as, bs, len, st)
    /\ UNCHANGED <<as, bs, len, fn>>

MemcmpCall ==
    /\ Running("anemone_memcmp", "call")
    /\ st' = anemone_memcmp_call(as, bs, len, st)
    /\ UNCHANGED <<as, bs, len, fn>>

Memeq8Call ==
    /\ Running("anemone_memeq8", "call")
    /\ st' = anemone_memeq8_call(as, bs, len, st)
    /\ UNCHANGED <<as, bs, len, fn>>

Memeq64Loop ==
    /\ Running("anemone_memeq64", "loop")
    /\ st' = anemone_memeq64_loop(as, bs, len, st)
    /\ UNCHANGED <<as, bs, len, fn>>

Memeq64Tail ==
    /\ Running("anemone_memeq64", "tail")
    /\ st' = anemone_memeq64_tail(as, bs, len, st)
    /\ UNCHANGED <<as, bs, len, fn>>

Memeq128Loop ==
    /\ Running("anemone_memeq128", "loop")
    /\ st' = anemone_memeq128_loop(as, bs, len, st)
    /\ UNCHANGED <<as, bs, len, fn>>

MemeqCall ==
    /\ Running("anemone_memeq", "call")
    /\ st' = anemone_memeq_call(as, bs, len, st)
    /\ UNCHANGED <<as, bs, len, fn>>

Next ==
    \/ Call
    \/ Memcmp8Loop
    \/ Memcmp64Loop
    \/ Memcmp64Tail
    \/ Memcmp128Loop
    \/ MemcmpCall
    \/ Memeq8Call
    \/ Memeq64Loop
    \/ Memeq64Tail
    \/ Memeq128Loop
    \/ MemeqCall

Spec == Init /\ [][Next]_vars

\* Every call that has begun keeps executing: the functions are
\* straight-line synchronous code.
FairSpec == Spec /\ WF_vars(Next)

Done == st.pc = "done"

TypeOK ==
    /\ len \in 0..MaxLen
    /\ Len(as) = len + Padding /\ Len(bs) = len + Padding
    /\ st.pc \in {"idle", "call", "loop", "tail", "done"}

(* ------------------------------ claims -------------------------------- *)

WordTier == {"anemone_memcmp64", "anemone_memeq64", "anemone_memcmp", "anemone_memeq"}

ByteTier == {"anemone_memcmp8", "anemone_memeq8"}

\* Indices below n where the buffers differ.
DiffAt(a, b, n) == {i \in 0..(n - 1) : a[i + 1] # b[i + 1]}

\* Byte difference at the first differing index below n, 0 when there is none.
FirstDiff(a, b, n) ==
    IF DiffAt(a, b, n) = {} THEN 0
    ELSE a[Min(DiffAt(a, b, n)) + 1] - b[Min(DiffAt(a, b, n)) + 1]

\* buf with every byte at an index >= n replaced by v.
Pad(buf, n, v) == [k \in DOMAIN buf |-> IF k > n THEN v ELSE buf[k]]

\* C1: when anemone_memcmp64, anemone_memcmp128 or anemone_memcmp returns,
\* its result has the sign of anemone_memcmp8 on the same buffers and length.
C1_SignAgreesWithByteTier ==
    (Done /\ fn \in {"anemone_memcmp64", "anemone_memcmp128", "anemone_memcmp"})
        => Sign(st.ret) = Sign(Result("anemone_memcmp8", as, bs, len))

\* C1 witness: anemone_memcmp64 with len = 17 returns -1 from the masked tail
\* where the byte tier returns -255.
C1_Witness ==
    /\ Done /\ fn = "anemone_memcmp64" /\ len = 17
    /\ st.mask = 1 /\ st.ret = -1
    /\ Result("anemone_memcmp8", as, bs, len) = -255

\* C2: anemone_memcmp8 and anemone_memcmp128 return exactly the difference of
\* the bytes at the first differing index below len, a nonzero value in
\* -255..255, and 0 when the buffers agree below len.
C2_ExactFirstDifference ==
    (Done /\ fn \in {"anemone_memcmp8", "anemone_memcmp128"})
        => /\ st.ret = FirstDiff(as, bs, len)
           /\ st.ret \in (-255)..255
           /\ (st.ret = 0) <=> (DiffAt(as, bs, len) = {})

\* C2 witness: 20 equal bytes, then 255 against 0, len = 21: the vector tier
\* returns 255 from its final partial chunk.
C2_Witness ==
    /\ Done /\ fn = "anemone_memcmp128" /\ len = 21
    /\ DiffAt(as, bs, len) = {20} /\ as[21] = 255 /\ bs[21] = 0
    /\ st.off = 16 /\ st.ret = 255

\* C3: every equality function returns 0 exactly when the buffers agree at
\* every index below len.
C3_EqualityIffIdentical ==
    (Done /\ fn \in Equality)
        => ((st.ret = 0) <=> (DiffAt(as, bs, len) = {}))

\* C3 witness: anemone_memeq64 returns nonzero for a single difference that
\* lies in the masked tail after one full word.
C3_Witness ==
    /\ Done /\ fn = "anemone_memeq64" /\ len = 15
    /\ DiffAt(as, bs, len) = {14} /\ st.mask = 7 /\ st.ret # 0

\* C4: the result of every function is the result it returns on buffers with
\* the same bytes below len and any of four other paddings.
C4_PaddingIndependence ==
    Done => \A u \in {0, 255} : \A v \in {0, 255} :
                Result(fn, Pad(as, len, u), Pad(bs, len, v), len) = st.ret

\* C4 witness: anemone_memcmp64 returns 0 after loading a tail word in which
\* the buffers differ only past len.
C4_Witness ==
    /\ Done /\ fn = "anemone_memcmp64" /\ len = 9
    /\ Byte(as, len) # Byte(bs, len) /\ len \in st.reads
    /\ DiffAt(as, bs, len) = {} /\ st.ret = 0

\* C5: the sign of an ordering function's result is the negation of the sign
\* of its result on the swapped buffers; for anemone_memcmp8 and
\* anemone_memcmp128 the value is the negation.
C5_Antisymmetry ==
    (Done /\ fn \in Ordering)
        => /\ Sign(st.ret) = -Sign(Result(fn, bs, as, len))
           /\ fn \in {"anemone_memcmp8", "anemone_memcmp128"}
                 => st.ret = -Result(fn, bs, as, len)

\* C5 witness: anemone_memcmp64 returns 1 from a full word of its loop.
C5_Witness ==
    /\ Done /\ fn = "anemone_memcmp64" /\ st.ret = 1
    /\ st.mask = -1 /\ st.off = 8
    /\ Result(fn, bs, as, len) = -1

\* C6: with len = 0 no function loads a byte or computes the mask, and each
\* returns 0.
C6_ZeroLength ==
    len = 0 => /\ st.reads = {}
               /\ st.mask = -1
               /\ Done => st.ret = 0

\* C6 witness: anemone_memeq has returned with len = 0 although the buffers'
\* first bytes differ.
C6_Witness ==
    /\ Done /\ fn = "anemone_memeq" /\ len = 0
    /\ Byte(as, 0) # Byte(bs, 0)

\* C7: every index loaded is below len + 15; the byte tier loads only
\* indices below len and the word tier only indices below len + 8.
C7_BoundedOverRead ==
    \A i \in st.reads :
        /\ i < len + 15
        /\ fn \in ByteTier => i < len
        /\ fn \in WordTier => i < len + 8

\* C7 witness: anemone_memcmp128 has returned after loading index len + 14.
C7_Witness ==
    /\ Done /\ fn = "anemone_memcmp128" /\ len = 17
    /\ (len + 14) \in st.reads

\* A loop iteration that continues: the byte loop advances i by one within
\* len, the word loop takes 8 from rem, the vector loop takes
\* current_chunk >= 1 from its length, never below 0.
LoopProgress ==
    (st.pc = "loop" /\ st'.pc = "loop") =>
        /\ st.cur = "anemone_memcmp8" => (st'.i = st.i + 1 /\ st'.i <= len)
        /\ st.cur \in {"anemone_memcmp64", "anemone_memeq64"}
              => (st'.rem = st.rem - 8 /\ st'.rem > 0)
        /\ st.cur \in {"anemone_memcmp128", "anemone_memeq128"}
              => (st'.rem < st.rem /\ st'.rem >= 0
                  /\ st.rem - st'.rem = (IF st.rem < 16 THEN st.rem ELSE 16))

\* C8: every call returns, and every loop iteration that continues makes
\* progress towards the end of the buffers.
C8_Terminates == (<>Done) /\ [][LoopProgress]_vars

\* C8 witness: anemone_memcmp128 with len = 17 has returned after two
\* chunks with its remaining length at exactly 0.
C8_Witness ==
    /\ Done /\ fn = "anemone_memcmp128" /\ len = 17
    /\ st.rem = 0 /\ st.off = 32 /\ st.ret = 0

\* C9: anemone_memcmp returns the value of anemone_memcmp64, one of -1, 0, 1;
\* anemone_memeq returns the value of anemone_memeq64, 0 or 1.
C9_DefaultsDelegateToWordTier ==
    /\ (Done /\ fn = "anemone_memcmp")
          => /\ st.ret = Result("anemone_memcmp64", as, bs, len)
             /\ st.ret \in {-1, 0, 1}
    /\ (Done /\ fn = "anemone_memeq")
          => /\ st.ret = Result("anemone_memeq64", as, bs, len)
             /\ st.ret \in {0, 1}

\* C9 witness: anemone_memcmp returns -1 where the byte tier returns -255.
C9_Witness ==
    /\ Done /\ fn = "anemone_memcmp" /\ st.ret = -1
    /\ Result("anemone_memcmp8", as, bs, len) = -255

AtTail == st.cur \in {"anemone_memcmp64", "anemone_memeq64"} /\ st.pc = "tail"

\* C10 as stated: at the exit of the word loop rem is in 0..7, and the mask
\* is computed only for rem in 1..7.
C10_TailBelowEight ==
    /\ AtTail => st.rem \in 0..7
    /\ st.mask \in {-1} \cup (1..7)

\* C10 amended: at the exit of the word loop rem is in 0..8, 0 exactly when
\* len = 0, and the mask is computed only for rem in 1..8.
C10_TailAtMostEight ==
    /\ AtTail => /\ st.rem \in 0..8
                 /\ (st.rem = 0) <=> (len = 0)
    /\ st.mask \in {-1} \cup (1..8)

\* C10 witness: anemone_memcmp64 with len = 16 has returned after computing
\* the mask for a tail of 8 bytes.
C10_Witness ==
    /\ Done /\ fn = "anemone_memcmp64" /\ len = 16
    /\ st.mask = 8 /\ st.off = 8

====
